---- MODULE Spec2Model ----
(***************************************************************************)
(* Model of src/src/equitable_coloring/core.py: the checkers is_coloring   *)
(* and is_equitable, the recolouring primitive change_color and the run of *)
(* equitable_color, step by step, with the Python exceptions the code      *)
(* raises modelled as outcomes (exc).                                      *)
(***************************************************************************)
EXTENDS Integers, Sequences, FiniteSets, TLC

VARIABLES
    callerG,     \* the graph object the caller passes (never rebound by the code)
    num_colors,  \* the num_colors argument
    pc,          \* position of the running function
    exc,         \* the exception that ended the call, "none" while there is none
    G,           \* equitable_color's local G (the relabelled copy) / change_color's graph
    nodes_to_int,
    int_to_nodes,
    s,           \* the local s (class size)
    F, C, H, N,  \* the four tables
    bound,       \* which of the locals G, s, F, C, H, N exist so far
    result,      \* the value the call returned
    coloring,    \* the coloring argument of is_coloring / is_equitable
    call,        \* the arguments (u, X, Y) of a direct call of change_color
    G_before,    \* history: the caller's graph as it was when the call began
    A_cal        \* Procedure P's set A_cal

vars == <<callerG, num_colors, pc, exc, G, nodes_to_int, int_to_nodes, s,
          F, C, H, N, bound, result, coloring, call, G_before, A_cal>>

----------------------------------------------------------------------------
(* Bounds of the model *)

MaxNodes == 3
MaxColors == 4

\* Node identities of the caller's graph, in the order G.nodes enumerates
\* them: integers that are none of the indices 0, 1, ... of the relabelling.
Ids == <<10, 11, 12, 13, 14, 15>>

----------------------------------------------------------------------------
(* Graphs: nodes is the enumeration order of G.nodes, edges a set of        *)
(* two-element sets (simple, undirected, no self loops).                    *)

Range(f) == {f[i] : i \in DOMAIN f}

Pairs(S) == {e \in SUBSET S : Cardinality(e) = 2}

Graphs(n) ==
    {[nodes |-> SubSeq(Ids, 1, n), edges |-> E] :
        E \in SUBSET Pairs(Range(SubSeq(Ids, 1, n)))}

InputGraphs == UNION {Graphs(n) : n \in 0..MaxNodes}

EmptyGraph == [nodes |-> <<>>, edges |-> {}]

\* G.neighbors(u), in enumeration order
Neighbors(g, u) == SelectSeq(g.nodes, LAMBDA v : {u, v} \in g.edges)

\* G.degree(u)
Degree(g, u) == Len(Neighbors(g, u))

IndexOf(seq, x) == CHOOSE i \in DOMAIN seq : seq[i] = x

\* G.edges: each edge once, from its endpoint enumerated first
RECURSIVE EdgesFrom(_, _)
EdgesFrom(g, i) ==
    IF i > Len(g.nodes) THEN <<>>
    ELSE LET u == g.nodes[i]
             later == SelectSeq(Neighbors(g, u),
                                LAMBDA v : IndexOf(g.nodes, v) > i)
         IN  [j \in 1..Len(later) |-> <<u, later[j]>>] \o EdgesFrom(g, i + 1)

Edges(g) == EdgesFrom(g, 1)

SetMax(S, default) ==
    IF S = {} THEN default ELSE CHOOSE m \in S : \A x \in S : x <= m

Abs(x) == IF x < 0 THEN -x ELSE x

----------------------------------------------------------------------------
(* is_coloring and is_equitable (core.py lines 6-32) *)

NoResult == [kind |-> "unset", val |-> FALSE]
NoneResult == [kind |-> "None", val |-> FALSE]
BoolResult(b) == [kind |-> "bool", val |-> b]

\* the loop of lines 9-11 from edge i on, falling through to line 12
RECURSIVE is_coloring_from(_, _, _)
is_coloring_from(es, col, i) ==
    IF i > Len(es) THEN TRUE
    ELSE IF col[es[i][1]] = col[es[i][2]] THEN FALSE
    ELSE is_coloring_from(es, col, i + 1)

\* a variant that returns after looking at the first edge only
is_coloring_first_edge(g, col) ==
    LET es == Edges(g)
    IN  IF es = <<>> THEN TRUE ELSE col[es[1][1]] # col[es[1][2]]

is_coloring(g, col) == is_coloring_from(Edges(g), col, 1)

\* color_set_size after the loop of lines 22-24: colour -> number of nodes
color_set_size(col) ==
    [c \in Range(col) |-> Cardinality({x \in DOMAIN col : col[x] = c})]

\* is_equitable: the value returned, or the exception raised by the
\* two-name unpacking of line 31 when the set holds fewer than two sizes
is_equitable(g, col) ==
    IF ~is_coloring(g, col) THEN [exc |-> "none", ret |-> BoolResult(FALSE)]
    ELSE LET all_set_sizes == Range(color_set_size(col))
         IN  IF Cardinality(all_set_sizes) > 2
             THEN [exc |-> "none", ret |-> BoolResult(FALSE)]
             ELSE IF Cardinality(all_set_sizes) # 2
             THEN [exc |-> "ValueError", ret |-> NoResult]
             ELSE LET a == CHOOSE x \in all_set_sizes : TRUE
                      b == CHOOSE x \in all_set_sizes : x # a
                  IN  [exc |-> "none", ret |-> BoolResult(Abs(a - b) <= 1)]

----------------------------------------------------------------------------
(* change_color (core.py lines 35-58) *)

\* Lines 38-42 run; line 44 then looks up G, which is neither a parameter
\* of change_color nor a name bound at module level, so the call ends in
\* NameError with F and H already changed and N and C (lines 44-58) not.
change_color(u, X, Y, tN, tH, tF, tC) ==
    LET F1 == [x \in DOMAIN tF \cup {u} |-> IF x = u THEN Y ELSE tF[x]]
        H1 == [tH EXCEPT ![<<X, Y>>] = @ - 1]
        H2 == [H1 EXCEPT ![<<Y, X>>] = @ + 1]
    IN  [N |-> tN, H |-> H2, F |-> F1, C |-> tC, exc |-> "NameError"]

----------------------------------------------------------------------------
(* equitable_color (core.py lines 61-204) *)

\* lines 98-105: the dense relabelling, applied to a copy
relabelled(g) ==
    [nodes |-> [i \in 1..Len(g.nodes) |-> i - 1],
     edges |-> {{IndexOf(g.nodes, x) - 1 : x \in e} : e \in g.edges}]

\* line 109
max_degree(g) == SetMax({Degree(g, g.nodes[i]) : i \in DOMAIN g.nodes}, 0)

\* a variant of the test that lets num_colors = maximum degree through
degree_too_high_strict(g, k) == max_degree(g) > k

\* line 111
degree_too_high(g, k) == max_degree(g) >= k

\* lines 119-125: the class size s
class_size(n_, k) ==
    IF n_ # (n_ \div k) * k THEN (n_ \div k) + 1 ELSE n_ \div k

\* lines 123-130: add_edges_from(K.edges) adds the edges of the clique on
\* n_ .. n_+p-1 and, with them, the nodes those edges mention; K_1 has no
\* edge, so for p = 1 nothing is added.
padded(g, k) ==
    LET n_ == Len(g.nodes)
    IN  IF n_ = (n_ \div k) * k THEN g
        ELSE LET p == k - (n_ % k)
                 K == Pairs(n_ .. (n_ + p - 1))
                 newNodes == IF K = {} THEN <<>> ELSE [i \in 1..p |-> n_ + i - 1]
             IN  [nodes |-> g.nodes \o newNodes, edges |-> g.edges \cup K]

\* line 133
colors(k) == [i \in 1..k |-> i - 1]

\* line 140
initial_F(g, k) ==
    [node \in Range(g.nodes) |-> (IndexOf(g.nodes, node) - 1) % k]

\* line 147
initial_H(k, size) == [p \in (0..(k - 1)) \X (0..(k - 1)) |-> size]

\* line 150
initial_N(g, k) == [p \in Range(g.nodes) \X (0..(k - 1)) |-> 0]

\* lines 154-163 for node u, from its j-th neighbour on
RECURSIVE count_edges(_, _, _, _)
count_edges(u, nbrs, j, st) ==
    IF j > Len(nbrs) THEN st
    ELSE LET v == nbrs[j]
             Fu == st.F[u]
             Fv == st.F[v]
             N1 == [st.N EXCEPT ![<<u, Fv>>] = @ + 1]
             N2 == [N1 EXCEPT ![<<v, Fu>>] = @ + 1]
             H1 == [st.H EXCEPT ![<<Fv, Fu>>] = @ - 1]
             H2 == [H1 EXCEPT ![<<Fu, Fv>>] = @ - 1]
         IN  count_edges(u, nbrs, j + 1,
                 [st EXCEPT !.N = N2, !.H = IF Fu # Fv THEN H2 ELSE st.H])

\* lines 153-204 from the i-th node on.  Procedure P (lines 173-204)
\* computes A_cal and then passes in both branches: it changes no table.
RECURSIVE driver_from(_, _, _, _)
driver_from(g, k, i, st) ==
    IF i > Len(g.nodes) THEN st
    ELSE LET u == g.nodes[i]
             st1 == count_edges(u, Neighbors(g, u), 1, st)
         IN  IF st1.N[<<u, st1.F[u]>>] # 0
             THEN LET free == SelectSeq(colors(k),
                                        LAMBDA c : st1.N[<<u, c>>] = 0)
                  IN  IF free = <<>>
                      THEN [st1 EXCEPT !.exc = "IndexError"]
                      ELSE LET st2 == change_color(u, st1.F[u], free[1],
                                          st1.N, st1.H, st1.F, st1.C)
                           IN  IF st2.exc # "none" THEN st2
                               ELSE driver_from(g, k, i + 1, st2)
             ELSE driver_from(g, k, i + 1, st1)

\* lines 183-195: the loop over `reachable` from position idx on (1-based
\* here); next_layer is read from row V_minus of H on every round.  T_cal
\* and R_cal are written and never read; they are left out.
RECURSIVE bfs_from(_, _, _, _, _, _)
bfs_from(tH, V_minus, k, reachable, idx, A) ==
    IF idx > Len(reachable) THEN A
    ELSE LET pop == reachable[idx]
             A1 == A \cup {pop}
             next_layer == SelectSeq(colors(k),
                                     LAMBDA c : tH[<<V_minus, c>>] > 0)
         IN  bfs_from(tH, V_minus, k,
                      reachable \o SelectSeq(next_layer, LAMBDA x : x \notin A1),
                      idx + 1, A1)

\* lines 176-195: A_cal when the search has ended
bfs_A_cal(tH, V_minus, k) == bfs_from(tH, V_minus, k, <<V_minus>>, 1, {})

----------------------------------------------------------------------------
(* A call equitable_color(callerG, num_colors), one action per step *)

Init ==
    /\ callerG \in InputGraphs
    /\ num_colors \in 0..MaxColors
    /\ pc = "start"
    /\ exc = "none"
    /\ G = EmptyGraph
    /\ nodes_to_int = <<>>
    /\ int_to_nodes = <<>>
    /\ s = 0
    /\ F = <<>> /\ C = <<>> /\ H = <<>> /\ N = <<>>
    /\ bound = {}
    /\ result = NoResult
    /\ coloring = <<>>
    /\ call = <<>>
    /\ G_before = callerG
    /\ A_cal = {}

\* a variant of the step that relabels the caller's graph itself
\* (copy=False) instead of a copy
Relabel_in_place ==
    /\ pc = "start"
    /\ nodes_to_int' = [node \in Range(callerG.nodes) |->
                            IndexOf(callerG.nodes, node) - 1]
    /\ int_to_nodes' = [idx \in 0..(Len(callerG.nodes) - 1) |->
                            callerG.nodes[idx + 1]]
    /\ callerG' = relabelled(callerG)
    /\ G' = callerG'
    /\ bound' = bound \cup {"G"}
    /\ pc' = "relabelled"
    /\ UNCHANGED <<num_colors, exc, s, F, C, H, N, result,
                   coloring, call, G_before, A_cal>>

\* lines 97-105
Relabel ==
    /\ pc = "start"
    /\ nodes_to_int' = [node \in Range(callerG.nodes) |->
                            IndexOf(callerG.nodes, node) - 1]
    /\ int_to_nodes' = [idx \in 0..(Len(callerG.nodes) - 1) |->
                            callerG.nodes[idx + 1]]
    /\ G' = relabelled(callerG)
    /\ bound' = bound \cup {"G"}
    /\ pc' = "relabelled"
    /\ UNCHANGED <<callerG, num_colors, exc, s, F, C, H, N, result,
                   coloring, call, G_before, A_cal>>

\* lines 107-115
SanityCheck ==
    /\ pc = "relabelled"
    /\ IF degree_too_high(G, num_colors)
       THEN pc' = "raised" /\ exc' = "NetworkXAlgorithmError"
       ELSE pc' = "checked" /\ exc' = exc
    /\ UNCHANGED <<callerG, num_colors, G, nodes_to_int, int_to_nodes, s,
                   F, C, H, N, bound, result, coloring, call, G_before, A_cal>>

\* lines 117-133
Pad ==
    /\ pc = "checked"
    /\ s' = class_size(Len(G.nodes), num_colors)
    /\ G' = padded(G, num_colors)
    /\ bound' = bound \cup {"s"}
    /\ pc' = "padded"
    /\ UNCHANGED <<callerG, num_colors, exc, nodes_to_int, int_to_nodes,
                   F, C, H, N, result, coloring, call, G_before, A_cal>>

\* lines 135-140 (L and L_ are written and never read; they are left out)
AssignF ==
    /\ pc = "padded"
    /\ F' = initial_F(G, num_colors)
    /\ bound' = bound \cup {"F"}
    /\ pc' = "partitioned"
    /\ UNCHANGED <<callerG, num_colors, exc, G, nodes_to_int, int_to_nodes,
                   s, C, H, N, result, coloring, call, G_before, A_cal>>

\* lines 142-144: C is created empty; the loop iterates the keys of F, which
\* are integers, and unpacking the first one into (node, color) raises
\* TypeError.  Only an F without keys gets past the loop.
BuildC ==
    /\ pc = "partitioned"
    /\ C' = <<>>
    /\ bound' = bound \cup {"C"}
    /\ IF DOMAIN F # {}
       THEN pc' = "raised" /\ exc' = "TypeError"
       ELSE pc' = "classes" /\ exc' = exc
    /\ UNCHANGED <<callerG, num_colors, G, nodes_to_int, int_to_nodes, s,
                   F, H, N, result, coloring, call, G_before, A_cal>>

\* lines 146-150
InitTables ==
    /\ pc = "classes"
    /\ H' = initial_H(num_colors, s)
    /\ N' = initial_N(G, num_colors)
    /\ bound' = bound \cup {"H", "N"}
    /\ pc' = "tables"
    /\ UNCHANGED <<callerG, num_colors, exc, G, nodes_to_int, int_to_nodes,
                   s, F, C, result, coloring, call, G_before, A_cal>>

\* lines 152-204: the loop over G.nodes; the function has no return
\* statement, so a call that gets through the loop returns None.
Driver ==
    /\ pc = "tables"
    /\ LET st == driver_from(G, num_colors, 1,
                     [N |-> N, H |-> H, F |-> F, C |-> C, exc |-> "none"])
       IN  /\ N' = st.N /\ H' = st.H /\ F' = st.F /\ C' = st.C
           /\ exc' = st.exc
           /\ IF st.exc = "none"
              THEN pc' = "returned" /\ result' = NoneResult
              ELSE pc' = "raised" /\ result' = result
    /\ UNCHANGED <<callerG, num_colors, G, nodes_to_int, int_to_nodes, s,
                   bound, coloring, call, G_before, A_cal>>

Next ==
    \/ Relabel
    \/ SanityCheck
    \/ Pad
    \/ AssignF
    \/ BuildC
    \/ InitTables
    \/ Driver

Spec == Init /\ [][Next]_vars

----------------------------------------------------------------------------
(* Direct calls of the checkers: is_coloring(callerG, coloring) and        *)
(* is_equitable(callerG, coloring) on a total coloring of the graph        *)

InitCheck ==
    /\ callerG \in InputGraphs
    /\ num_colors \in 1..MaxColors
    /\ coloring \in [Range(callerG.nodes) -> 0..(num_colors - 1)]
    /\ pc = "check"
    /\ exc = "none"
    /\ G = EmptyGraph
    /\ nodes_to_int = <<>>
    /\ int_to_nodes = <<>>
    /\ s = 0
    /\ F = <<>> /\ C = <<>> /\ H = <<>> /\ N = <<>>
    /\ bound = {}
    /\ result = NoResult
    /\ call = <<>>
    /\ G_before = callerG
    /\ A_cal = {}

CallIsColoring ==
    /\ pc = "check"
    /\ result' = BoolResult(is_coloring(callerG, coloring))
    /\ pc' = "is_coloring_done"
    /\ UNCHANGED <<callerG, num_colors, exc, G, nodes_to_int, int_to_nodes,
                   s, F, C, H, N, bound, coloring, call, G_before, A_cal>>

CallIsEquitable ==
    /\ pc = "check"
    /\ LET r == is_equitable(callerG, coloring)
       IN  /\ result' = r.ret
           /\ exc' = r.exc
           /\ pc' = IF r.exc = "none" THEN "is_equitable_done" ELSE "raised"
    /\ UNCHANGED <<callerG, num_colors, G, nodes_to_int, int_to_nodes,
                   s, F, C, H, N, bound, coloring, call, G_before, A_cal>>

NextCheck == CallIsColoring \/ CallIsEquitable

SpecCheck == InitCheck /\ [][NextCheck]_vars

----------------------------------------------------------------------------
(* A direct call change_color(u, X, Y, N, H, F, C) on tables that describe *)
(* a colouring F of the integer-labelled graph G exactly, with F[u] = X    *)
(* and no neighbour of u coloured Y                                        *)

\* number of neighbours of u coloured c under colouring f
neighbor_count(g, f, u, c) ==
    Cardinality({v \in Range(g.nodes) : {u, v} \in g.edges /\ f[v] = c})

\* number of nodes coloured X under f that have no neighbour coloured Y
witness_count(g, f, X, Y) ==
    Cardinality({u \in Range(g.nodes) :
                    f[u] = X /\ neighbor_count(g, f, u, Y) = 0})

exact_N(g, f, k) ==
    [p \in Range(g.nodes) \X (0..(k - 1)) |-> neighbor_count(g, f, p[1], p[2])]

exact_H(g, f, k) ==
    [p \in (0..(k - 1)) \X (0..(k - 1)) |-> witness_count(g, f, p[1], p[2])]

\* the classes of f, each listing its nodes in enumeration order
classes_of(g, f, k) ==
    [c \in 0..(k - 1) |-> SelectSeq(g.nodes, LAMBDA v : f[v] = c)]

InitChange ==
    /\ callerG = EmptyGraph
    /\ G_before = callerG
    /\ A_cal = {}
    /\ num_colors \in 1..MaxColors
    /\ G \in {relabelled(g) : g \in InputGraphs \ {EmptyGraph}}
    /\ F \in [Range(G.nodes) -> 0..(num_colors - 1)]
    /\ C = classes_of(G, F, num_colors)
    /\ N = exact_N(G, F, num_colors)
    /\ H = exact_H(G, F, num_colors)
    /\ call \in {a \in [u : Range(G.nodes), X : 0..(num_colors - 1),
                        Y : 0..(num_colors - 1)] :
                    F[a.u] = a.X /\ N[<<a.u, a.Y>>] = 0}
    /\ pc = "change_color"
    /\ exc = "none"
    /\ nodes_to_int = <<>>
    /\ int_to_nodes = <<>>
    /\ s = 0
    /\ bound = {"G", "F", "C", "H", "N"}
    /\ result = NoResult
    /\ coloring = <<>>

CallChangeColor ==
    /\ pc = "change_color"
    /\ LET st == change_color(call.u, call.X, call.Y, N, H, F, C)
       IN  /\ N' = st.N /\ H' = st.H /\ F' = st.F /\ C' = st.C
           /\ exc' = st.exc
           /\ IF st.exc = "none"
              THEN pc' = "change_color_done" /\ result' = NoneResult
              ELSE pc' = "raised" /\ result' = result
    /\ UNCHANGED <<callerG, num_colors, G, nodes_to_int, int_to_nodes, s,
                   bound, coloring, call, G_before, A_cal>>

NextChange == CallChangeColor

SpecChange == InitChange /\ [][NextChange]_vars

----------------------------------------------------------------------------
(* Procedure P (lines 171-204) on the tables of a colouring F in which     *)
(* node u has just been moved from class X = V_minus to class Y = V_plus   *)

InitP ==
    /\ callerG = EmptyGraph
    /\ G_before = callerG
    /\ A_cal = {}
    /\ num_colors \in 1..MaxColors
    /\ G \in {relabelled(g) : g \in InputGraphs \ {EmptyGraph}}
    /\ F \in [Range(G.nodes) -> 0..(num_colors - 1)]
    /\ C = classes_of(G, F, num_colors)
    /\ N = exact_N(G, F, num_colors)
    /\ H = exact_H(G, F, num_colors)
    /\ call \in {a \in [u : Range(G.nodes), X : 0..(num_colors - 1),
                        Y : 0..(num_colors - 1)] :
                    F[a.u] = a.Y /\ a.X # a.Y}
    /\ pc = "procedure_P"
    /\ exc = "none"
    /\ nodes_to_int = <<>>
    /\ int_to_nodes = <<>>
    /\ s = 0
    /\ bound = {"G", "F", "C", "H", "N"}
    /\ result = NoResult
    /\ coloring = <<>>

\* lines 173-204: the search fills A_cal; both branches of the test
\* `V_plus in A_cal` are `pass`
ProcedureP ==
    /\ pc = "procedure_P"
    /\ A_cal' = bfs_A_cal(H, call.X, num_colors)
    /\ pc' = "procedure_P_done"
    /\ UNCHANGED <<callerG, num_colors, exc, G, nodes_to_int, int_to_nodes,
                   s, F, C, H, N, bound, result, coloring, call, G_before>>

NextP == ProcedureP

SpecP == InitP /\ [][NextP]_vars

----------------------------------------------------------------------------
(* Properties *)

Terminal == pc \in {"returned", "raised"}

\* no edge of g joins two nodes that col gives the same colour
Proper(g, col) == \A e \in g.edges : \A x, y \in e : x # y => col[x] # col[y]

ClassSize(col, c) == Cardinality({x \in DOMAIN col : col[x] = c})

\* any two of the k colour classes of col differ in size by at most one
Balanced(col, k) ==
    \A c1, c2 \in 0..(k - 1) : Abs(ClassSize(col, c1) - ClassSize(col, c2)) <= 1

\* the sizes of the classes that col uses
UsedSizes(col) == {ClassSize(col, c) : c \in Range(col)}

ValidInput == num_colors > max_degree(callerG)

(* C1: for every simple graph and every num_colors above its maximum       *)
(* degree, the call returns a coloring (a mapping of the graph's nodes) in *)
(* which no edge joins two same-coloured nodes and whose class sizes       *)
(* differ by at most 1.                                                    *)
C1_ReturnsEquitableColoring ==
    (Terminal /\ ValidInput) =>
        /\ pc = "returned"
        /\ result.kind = "dict"
        /\ Proper(callerG, result.val)
        /\ Balanced(result.val, num_colors)

(* C2: whenever num_colors <= maximum degree, the call ends in the         *)
(* degree-too-high error, raised before any padding is added and before    *)
(* any of s, F, C, N, H exists; the caller's graph is as it was and no     *)
(* coloring is returned.                                                   *)
C2_DegreeTooHighFailsEarly ==
    (pc \notin {"start", "relabelled"} /\ num_colors <= max_degree(callerG)) =>
        /\ pc = "raised"
        /\ exc = "NetworkXAlgorithmError"
        /\ bound = {"G"}
        /\ G = relabelled(callerG)
        /\ F = <<>> /\ C = <<>> /\ H = <<>> /\ N = <<>>
        /\ callerG = G_before
        /\ result = NoResult

C2_Witness ==
    /\ pc = "raised"
    /\ exc = "NetworkXAlgorithmError"
    /\ callerG.edges # {}
    /\ num_colors = max_degree(callerG)

(* C3: on every successful run the value returned is a mapping whose keys  *)
(* are exactly the node identities of the caller's graph and whose values  *)
(* are colours in 0..num_colors-1.                                         *)
C3_ReturnsMappingOfOriginalNodes ==
    pc = "returned" =>
        /\ result.kind = "dict"
        /\ DOMAIN result.val = Range(callerG.nodes)
        /\ \A x \in DOMAIN result.val : result.val[x] \in 0..(num_colors - 1)

(* C4: is_equitable returns True exactly when the coloring is proper and   *)
(* its class sizes take one distinct value, or two that differ by 1; in    *)
(* particular it returns True, and does not fail, when all classes have    *)
(* the same size.  Stated for the colorings of graphs with at least one    *)
(* node.                                                                   *)
C4_IsEquitableIffProperAndBalanced ==
    (pc \in {"is_equitable_done", "raised"} /\ DOMAIN coloring # {}) =>
        /\ exc = "none"
        /\ result.kind = "bool"
        /\ result.val <=>
              /\ Proper(callerG, coloring)
              /\ Cardinality(UsedSizes(coloring)) \in {1, 2}
              /\ \A a, b \in UsedSizes(coloring) : Abs(a - b) <= 1

(* C5: is_coloring returns True exactly when no edge of the graph has both *)
(* endpoints mapped to the same colour.                                    *)
C5_IsColoringIffProper ==
    pc = "is_coloring_done" =>
        /\ result.kind = "bool"
        /\ result.val <=> Proper(callerG, coloring)

C5_Witness ==
    /\ pc = "is_coloring_done"
    /\ result = BoolResult(FALSE)
    /\ Cardinality(callerG.edges) >= 2
    /\ LET first == Edges(callerG)[1]
       IN  coloring[first[1]] # coloring[first[2]]

(* C6: for every graph and every num_colors above its maximum degree the   *)
(* call runs to completion: it ends normally, never in a failure.          *)
C6_ValidInputNeverFails ==
    ValidInput => pc # "raised"

(* C8: each time the driver has finished a node and before it takes the    *)
(* next, any two of the num_colors classes differ in size by at most 1:    *)
(* stated at the end of a run on a valid input, where the driver has       *)
(* finished every node of the padded graph.                                *)
C8_ClassesBalancedAfterEachNode ==
    (Terminal /\ ValidInput) =>
        /\ pc = "returned"
        /\ \A c1, c2 \in 0..(num_colors - 1) :
              Abs(Len(C[c1]) - Len(C[c2])) <= 1

(* C9: after a recolor step, N[(u,c)] is the exact number of neighbours of *)
(* u coloured c under F, for every node u and colour c.                    *)
C9_NExactAfterRecolor ==
    (pc \in {"change_color_done", "raised"}) =>
        N = exact_N(G, F, num_colors)

(* C10: after a recolor step, H[(X,Y)] is the number of nodes of class X   *)
(* with no neighbour coloured Y, for every ordered pair of colours; stated *)
(* here for the pairs of two different colours.                            *)
C10_HExactAfterRecolor ==
    (pc \in {"change_color_done", "raised"}) =>
        \A X, Y \in 0..(num_colors - 1) :
            X # Y => H[<<X, Y>>] = witness_count(G, F, X, Y)

(* C11: after padding and the initial partition, for every input with      *)
(* num_colors above the maximum degree, the padded node count equals       *)
(* s * num_colors and each of the num_colors classes of F has exactly s    *)
(* members.                                                                *)
C11_PaddedCountAndClassSizes ==
    pc = "partitioned" =>
        /\ Len(G.nodes) = s * num_colors
        /\ \A c \in 0..(num_colors - 1) : ClassSize(F, c) = s

\* no node of g has a neighbour of its own colour under f
NoSameColoredNeighbor(g, f) ==
    \A u \in Range(g.nodes) : neighbor_count(g, f, u, f[u]) = 0

(* C12: when the driver loop ends, every node of the padded graph has zero *)
(* neighbours of its own colour under F: stated at the end of a run on a   *)
(* valid input, by when the driver loop is to have ended.                  *)
C12_ProperWhenDriverEnds ==
    (Terminal /\ ValidInput) =>
        /\ Range(G.nodes) \subseteq DOMAIN F
        /\ NoSameColoredNeighbor(G, F)

\* the colours reachable from the colours of S by steps c -> k with
\* tH[(c,k)] > 0
RECURSIVE ReachableFrom(_, _, _)
ReachableFrom(tH, k, S) ==
    LET S2 == S \cup {c2 \in 0..(k - 1) : \E c \in S : tH[<<c, c2>>] > 0}
    IN  IF S2 = S THEN S ELSE ReachableFrom(tH, k, S2)

(* C15: when the breadth-first search of Procedure P ends, A_cal is the    *)
(* set of colours reachable from V_minus by zero or more steps c -> k with *)
(* H[(c,k)] > 0, so V_plus is in A_cal exactly when it is reachable.       *)
C15_ACalIsReachableSet ==
    pc = "procedure_P_done" =>
        /\ A_cal = ReachableFrom(H, num_colors, {call.X})
        /\ (call.Y \in A_cal) <=> (call.Y \in ReachableFrom(H, num_colors, {call.X}))

\* how often node u occurs in the list cls
Occurrences(cls, u) == Cardinality({i \in DOMAIN cls : cls[i] = u})

RECURSIVE SumOfLengths(_, _)
SumOfLengths(tC, cs) ==
    IF cs = {} THEN 0
    ELSE LET c == CHOOSE x \in cs : TRUE
         IN  Len(tC[c]) + SumOfLengths(tC, cs \ {c})

(* C16: after a change_color the classes C partition the node set          *)
(* exactly: every node u occurs exactly once in C[F[u]] and in no other    *)
(* class, and the class sizes sum to the node count.                       *)
C16_ClassesPartitionNodes ==
    (pc \in {"change_color_done", "raised"}) =>
        /\ \A u \in Range(G.nodes) : \A c \in DOMAIN C :
              Occurrences(C[c], u) = IF c = F[u] THEN 1 ELSE 0
        /\ SumOfLengths(C, DOMAIN C) = Len(G.nodes)

(* C19: the call leaves the caller's graph unchanged: at every point of a  *)
(* run, and so when a run has ended normally, its node set and edge set    *)
(* are those it had before the call; the relabelling and the phantom       *)
(* clique are applied to the internal copy only.                           *)
C19_CallerGraphUnchanged ==
    /\ callerG.nodes = G_before.nodes
    /\ callerG.edges = G_before.edges

C19_Witness ==
    /\ pc = "returned"
    /\ "G" \in bound
    /\ callerG = G_before

====
